---------------------------- MODULE Spec2Model ----------------------------
(***************************************************************************)
(* Model of src/src/App.tsx, the LinearAlgebraIntro component: a canvas on *)
(* which the user draws points, a 2x2 matrix edited by four range inputs,  *)
(* and an effect that redraws the points and their images.                 *)
(*                                                                         *)
(* Numbers.  A JavaScript number is a record [nan, v]: either NaN, or the  *)
(* finite number v / Scale (Scale = 1 / step of the range inputs).  Pixel  *)
(* positions of events are whole pixels, so every product the code forms   *)
(* (a point coordinate times a matrix cell) is exact in this fixed point.  *)
(*                                                                         *)
(* React.  useState keeps the value of the last render; a set call queues  *)
(* an update and the next render folds the queue into the state: a queued  *)
(* value replaces the state, a queued updater is applied to it.  The       *)
(* updates queued before a value have no part in the result, and the model *)
(* drops them from the queue when the value is queued.  A                  *)
(* handler reads the state through the closure of the last render.         *)
(* useRef is a mutable cell written at once.  When the render comes after  *)
(* an update is queued is React's choice (at the end of the handler, in a  *)
(* microtask or in a later task, by the version of React and the kind of   *)
(* event): Render is a step of its own, and any handler may run before it. *)
(*                                                                         *)
(* The effect.  React runs the useEffect callback after the render that    *)
(* changed a dependency and before the next render, with the state of its  *)
(* own render.  The callback reads originalPoints and matrix and writes    *)
(* the canvas; no handler reads or writes any of these three (handlers     *)
(* write the queues and isDrawing), so the callback commutes with every    *)
(* handler step and the model runs it in the step of its render.           *)
(***************************************************************************)
EXTENDS Integers, Sequences, FiniteSets, TLC

VARIABLES
    originalPoints,  \* useState<Point[]>: value of the last render
    matrix,          \* useState<number[][]>: value of the last render
    pointsQueue,     \* updates queued by setOriginalPoints since the last render, oldest first
    matrixQueue,     \* values queued by setMatrix since the last render, oldest first
    isDrawing,       \* isDrawing.current
    canvas,          \* what the 2d context holds: draw commands since the last clearRect
    fault,           \* the last exception thrown out of a handler, or "none"
    stroke,          \* observer: the press and the moves of the drag in progress, in order
    before,          \* observer: the points stored and queued when that drag began
    counts,          \* observer: presses, and moves handled while drawing, since the last clear
    args,            \* the arguments of a pure function called on its own
    result           \* what that call returned

vars == <<originalPoints, matrix, pointsQueue, matrixQueue, isDrawing,
          canvas, fault, stroke, before, counts, args, result>>

-----------------------------------------------------------------------------
(* Program constants *)

CANVAS_WIDTH == 500
CANVAS_HEIGHT == 500

SLIDER_MIN == -5
SLIDER_MAX == 5
Scale == 10          \* 1 / step of the range inputs (step = 0.1)

-----------------------------------------------------------------------------
(* Bounds of the model *)

MaxPoints == 2       \* points stored or queued at most

MaxCoord == 2        \* whole coordinates of the points a pure function is called with
MaxCell == 1         \* whole cells of the matrices a pure function is called with

-----------------------------------------------------------------------------
(* JavaScript numbers *)

NaN == [nan |-> TRUE, v |-> 0]

Fin(n) == [nan |-> FALSE, v |-> n]

\* the whole number n
Num(n) == Fin(n * Scale)

IsFinite(a) == ~a.nan

Neg(a) == IF IsFinite(a) THEN Fin(0 - a.v) ELSE NaN

Add(a, b) == IF IsFinite(a) /\ IsFinite(b) THEN Fin(a.v + b.v) ELSE NaN

Sub(a, b) == IF IsFinite(a) /\ IsFinite(b) THEN Fin(a.v - b.v) ELSE NaN

\* rounds toward zero; exact whenever one factor is a whole number
Quot(n, d) == IF n >= 0 THEN n \div d ELSE 0 - ((0 - n) \div d)

Mul(a, b) == IF IsFinite(a) /\ IsFinite(b) THEN Fin(Quot(a.v * b.v, Scale)) ELSE NaN

Half(a) == IF IsFinite(a) THEN Fin(Quot(a.v, 2)) ELSE NaN

-----------------------------------------------------------------------------
(* parseFloat on the text of a control.  A text is a sequence of characters. *)

Digits == <<"0", "1", "2", "3", "4", "5", "6", "7", "8", "9">>

IsDigit(c) == \E k \in 1..Len(Digits) : Digits[k] = c

DigitVal(c) == (CHOOSE k \in 1..Len(Digits) : Digits[k] = c) - 1

RECURSIVE TrimStart(_)
TrimStart(t) == IF t # <<>> /\ Head(t) = " " THEN TrimStart(Tail(t)) ELSE t

RECURSIVE LeadingDigits(_)
LeadingDigits(t) ==
    IF t # <<>> /\ IsDigit(Head(t)) THEN <<Head(t)>> \o LeadingDigits(Tail(t)) ELSE <<>>

RECURSIVE DecimalVal(_)
DecimalVal(ds) ==
    IF ds = <<>> THEN 0
    ELSE 10 * DecimalVal(SubSeq(ds, 1, Len(ds) - 1)) + DigitVal(ds[Len(ds)])

RECURSIVE Pow10(_)
Pow10(n) == IF n = 0 THEN 1 ELSE 10 * Pow10(n - 1)

\* The longest prefix that is a decimal literal (sign, digits, point, digits);
\* NaN when there is none.  Exponents and "Infinity" are not in the texts used.
parseFloat(t) ==
    LET s == TrimStart(t)
        signed == s # <<>> /\ Head(s) \in {"+", "-"}
        body == IF signed THEN Tail(s) ELSE s
        ip == LeadingDigits(body)
        rest == SubSeq(body, Len(ip) + 1, Len(body))
        fp == IF rest # <<>> /\ Head(rest) = "." THEN LeadingDigits(Tail(rest)) ELSE <<>>
        mag == DecimalVal(ip) * Scale + Quot(DecimalVal(fp) * Scale, Pow10(Len(fp)))
    IN  IF ip = <<>> /\ fp = <<>> THEN NaN
        ELSE IF signed /\ Head(s) = "-" THEN Fin(0 - mag) ELSE Fin(mag)

-----------------------------------------------------------------------------
(* Arrays.  An array is a function from its property keys to values; its   *)
(* length is one more than its largest index, and a key below 0 is a       *)
(* property that is no element.                                            *)

ArrayLength(a) ==
    LET idx == {k \in DOMAIN a : k >= 0}
    IN  IF idx = {} THEN 0 ELSE (CHOOSE k \in idx : \A n \in idx : n <= k) + 1

\* [...a]: the elements, without the other properties
SpreadArray(a) == [k \in 0..(ArrayLength(a) - 1) |-> a[k]]

\* a[k] = v
SetElement(a, k, v) == [n \in (DOMAIN a) \cup {k} |-> IF n = k THEN v ELSE a[n]]

Row(a, b) == [k \in 0..1 |-> IF k = 0 THEN a ELSE b]

IdentityMatrix == Row(Row(Num(1), Num(0)), Row(Num(0), Num(1)))

-----------------------------------------------------------------------------
(* Pure functions of the component *)

\* getBoundingClientRect() of the canvas: where the page puts it
BoundingClientRect == [left |-> Num(40), top |-> Num(100)]

\* mutant: the y axis not flipped
PointFromEventNoFlip(e) ==
    LET rect == BoundingClientRect
    IN  [x |-> Sub(Sub(Num(e.clientX), rect.left), Half(Num(CANVAS_WIDTH))),
         y |-> Sub(Sub(Num(e.clientY), rect.top), Half(Num(CANVAS_HEIGHT)))]

\* addPointFromEvent, lines 43-45: the plane point of a mouse event
PointFromEvent(e) ==
    LET rect == BoundingClientRect
    IN  [x |-> Sub(Sub(Num(e.clientX), rect.left), Half(Num(CANVAS_WIDTH))),
         y |-> Neg(Sub(Sub(Num(e.clientY), rect.top), Half(Num(CANVAS_HEIGHT))))]

\* mutant: the off-diagonal cells exchanged
applyMatrixTransposed(pt, m) ==
    [x |-> Add(Mul(pt.x, m[0][0]), Mul(pt.y, m[1][0])),
     y |-> Add(Mul(pt.x, m[0][1]), Mul(pt.y, m[1][1]))]

\* mutant: the cells of each row exchanged
applyMatrixSwappedColumns(pt, m) ==
    [x |-> Add(Mul(pt.x, m[0][1]), Mul(pt.y, m[0][0])),
     y |-> Add(Mul(pt.x, m[1][1]), Mul(pt.y, m[1][0]))]

\* mutant: the second cell of each row added without its coordinate
applyMatrixAffine(pt, m) ==
    [x |-> Add(Mul(pt.x, m[0][0]), m[0][1]),
     y |-> Add(Mul(pt.x, m[1][0]), m[1][1])]

\* applyMatrix, lines 177-182
applyMatrix(pt, m) ==
    [x |-> Add(Mul(pt.x, m[0][0]), Mul(pt.y, m[0][1])),
     y |-> Add(Mul(pt.x, m[1][0]), Mul(pt.y, m[1][1]))]

\* mutant: the y axis not flipped back
drawPointNoFlip(pt, color, filled) ==
    LET cx == Add(pt.x, Half(Num(CANVAS_WIDTH)))
        cy == Add(pt.y, Half(Num(CANVAS_HEIGHT)))
    IN  IF IsFinite(cx) /\ IsFinite(cy)
        THEN <<[op |-> IF filled THEN "fill" ELSE "stroke", color |-> color,
                x |-> cx, y |-> cy]>>
        ELSE <<>>

\* ctx.arc returns without adding to the path when an argument is not finite,
\* and fill or stroke of the empty path draws nothing
drawPoint(pt, color, filled) ==
    LET cx == Add(pt.x, Half(Num(CANVAS_WIDTH)))
        cy == Add(Neg(pt.y), Half(Num(CANVAS_HEIGHT)))
    IN  IF IsFinite(cx) /\ IsFinite(cy)
        THEN <<[op |-> IF filled THEN "fill" ELSE "stroke", color |-> color,
                x |-> cx, y |-> cy]>>
        ELSE <<>>

drawAxes ==
    <<[op |-> "line", color |-> "black",
       x1 |-> Num(0), y1 |-> Half(Num(CANVAS_HEIGHT)),
       x2 |-> Num(CANVAS_WIDTH), y2 |-> Half(Num(CANVAS_HEIGHT))],
      [op |-> "line", color |-> "black",
       x1 |-> Half(Num(CANVAS_WIDTH)), y1 |-> Num(0),
       x2 |-> Half(Num(CANVAS_WIDTH)), y2 |-> Num(CANVAS_HEIGHT)]>>

RECURSIVE DrawOriginals(_)
DrawOriginals(pts) ==
    IF pts = <<>> THEN <<>>
    ELSE drawPoint(Head(pts), "blue", TRUE) \o DrawOriginals(Tail(pts))

RECURSIVE DrawTransformed(_, _)
DrawTransformed(pts, m) ==
    IF pts = <<>> THEN <<>>
    ELSE drawPoint(applyMatrix(Head(pts), m), "red", FALSE) \o DrawTransformed(Tail(pts), m)

\* ctx.clearRect(0, 0, CANVAS_WIDTH, CANVAS_HEIGHT) on the canvas of that
\* width and height, lines 98-99: nothing drawn before is left
clearRect(surface) == SubSeq(surface, 1, 0)

\* mutant: the surface not cleared
EffectBodyNoClear(surface, pts, m) ==
    surface \o drawAxes \o DrawOriginals(pts) \o DrawTransformed(pts, m)

\* the body of the effect, lines 28-39
EffectBody(surface, pts, m) ==
    clearRect(surface) \o drawAxes \o DrawOriginals(pts) \o DrawTransformed(pts, m)

\* mutant: row and column exchanged in the write
SliderMatrixTransposed(m, i, j, value) ==
    LET newMatrix == SpreadArray([k \in DOMAIN m |-> SpreadArray(m[k])])
    IN  IF j \in DOMAIN newMatrix
        THEN [thrown |-> "none", value |-> SetElement(newMatrix, j, SetElement(newMatrix[j], i, value))]
        ELSE [thrown |-> "TypeError", value |-> newMatrix]

\* handleSliderChange, lines 65-66: the matrix handed to setMatrix, or the
\* TypeError of writing a property of undefined when there is no row i
SliderMatrix(m, i, j, value) ==
    LET newMatrix == SpreadArray([k \in DOMAIN m |-> SpreadArray(m[k])])
    IN  IF i \in DOMAIN newMatrix
        THEN [thrown |-> "none", value |-> SetElement(newMatrix, i, SetElement(newMatrix[i], j, value))]
        ELSE [thrown |-> "TypeError", value |-> newMatrix]

\* mutant: one cell of the literal mistyped
ResetValueMistyped == Row(Row(Num(1), Num(0)), Row(Num(1), Num(0)))

\* resetMatrix, lines 75-78: the matrix handed to setMatrix
ResetValue == Row(Row(Num(1), Num(0)), Row(Num(0), Num(1)))

\* the updates setOriginalPoints is called with
AppendUpdater(pt) == [kind |-> "updater", pt |-> pt]

ClearUpdate == [kind |-> "value", pt |-> [x |-> Num(0), y |-> Num(0)]]

\* mutant: the new point put first
ApplyUpdateInFront(prev, u) == IF u.kind = "updater" THEN <<u.pt>> \o prev ELSE <<>>

\* mutant: a point already stored not added again
ApplyUpdateNoDuplicates(prev, u) ==
    IF u.kind = "updater"
    THEN IF \E k \in 1..Len(prev) : prev[k] = u.pt THEN prev ELSE Append(prev, u.pt)
    ELSE <<>>

\* one queued update applied to the state
ApplyUpdate(prev, u) == IF u.kind = "updater" THEN Append(prev, u.pt) ELSE <<>>

RECURSIVE ApplyUpdates(_, _)
ApplyUpdates(prev, queue) ==
    IF queue = <<>> THEN prev
    ELSE ApplyUpdates(ApplyUpdate(prev, Head(queue)), Tail(queue))

\* what the next render makes of the state
NextPoints == ApplyUpdates(originalPoints, pointsQueue)

NextMatrix == IF matrixQueue = <<>> THEN matrix ELSE matrixQueue[Len(matrixQueue)]

Pending == Len(pointsQueue) + Len(matrixQueue)

-----------------------------------------------------------------------------
(* Inputs *)

\* mouse events over the canvas, by clientX and clientY
MouseEvents ==
    {[clientX |-> 290, clientY |-> 350],     \* the centre of the canvas
     [clientX |-> 300, clientY |-> 330]}     \* 10 right of it and 20 above

\* texts a control may be asked to report
SampleTexts ==
    {<<"-", "5">>, <<"6">>, <<"a", "b", "c">>}

\* mutant: the control without its max
RangeAcceptsNoMax(t) ==
    LET value == parseFloat(t)
    IN  /\ IsFinite(value)
        /\ Num(SLIDER_MIN).v <= value.v

\* <input type="range" min max step>, lines 117-123: the control reports
\* only the text of a number of its range (every number of the fixed point
\* lies on a step)
RangeAccepts(t) ==
    LET value == parseFloat(t)
    IN  /\ IsFinite(value)
        /\ Num(SLIDER_MIN).v <= value.v
        /\ value.v <= Num(SLIDER_MAX).v

SliderTexts == {t \in SampleTexts : RangeAccepts(t)}

\* the grid of controls, lines 110-112
GridIndices == {0, 1}

\* calls of handleSliderChange its type allows: a value that is no number,
\* a row or a column the grid does not have, and one call the grid makes
SampleCalls ==
    {[i |-> 0, j |-> 0, text |-> <<"a", "b", "c">>],
     [i |-> 1, j |-> 1, text |-> <<"0", ".", "5">>],
     [i |-> 2, j |-> 0, text |-> <<"-", "5">>],
     [i |-> -1, j |-> 1, text |-> <<"-", "5">>],
     [i |-> 0, j |-> 2, text |-> <<"-", "5">>],
     [i |-> 0, j |-> -1, text |-> <<"-", "5">>]}

\* no pure function called on its own
NoArgs ==
    [op |-> "none", p1 |-> [x |-> Num(0), y |-> Num(0)], p2 |-> [x |-> Num(0), y |-> Num(0)],
     k |-> 0, m |-> IdentityMatrix, e |-> [clientX |-> 0, clientY |-> 0]]

NoResult == [op |-> "none", points |-> <<>>, drawn |-> <<>>]

-----------------------------------------------------------------------------
(* State after the first render and its effect *)

Init ==
    /\ originalPoints = <<>>
    /\ matrix = IdentityMatrix
    /\ pointsQueue = <<>>
    /\ matrixQueue = <<>>
    /\ isDrawing = FALSE
    /\ canvas = EffectBody(<<>>, <<>>, IdentityMatrix)
    /\ fault = "none"
    /\ stroke = <<>>
    /\ before = <<>>
    /\ counts = [presses |-> 0, moves |-> 0]
    /\ args = NoArgs
    /\ result = NoResult

-----------------------------------------------------------------------------
(* Event handlers *)

CanAddPoint == Len(NextPoints) < MaxPoints

\* a value queued: the updates queued before it are moot
QueueValue(queue, value) == <<value>>

\* an updater queued
QueueUpdater(queue, updater) == Append(queue, updater)

\* setOriginalPoints((prev) => [...prev, { x, y }])
addPointFromEvent(e) == pointsQueue' = QueueUpdater(pointsQueue, AppendUpdater(PointFromEvent(e)))

handleMouseDown(e) ==
    /\ CanAddPoint
    /\ isDrawing' = TRUE
    /\ addPointFromEvent(e)
    /\ stroke' = <<e>>
    /\ before' = NextPoints
    /\ counts' = [counts EXCEPT !.presses = @ + 1]
    /\ UNCHANGED <<originalPoints, matrix, matrixQueue, canvas, fault, args, result>>

\* mutant: the move handler without its test of isDrawing.current
handleMouseMoveAlways(e) ==
    /\ CanAddPoint
    /\ addPointFromEvent(e)
    /\ IF isDrawing
       THEN /\ stroke' = Append(stroke, e)
            /\ counts' = [counts EXCEPT !.moves = @ + 1]
       ELSE UNCHANGED <<stroke, counts>>
    /\ before' = before
    /\ UNCHANGED <<originalPoints, matrix, matrixQueue, isDrawing, canvas, fault, args, result>>

handleMouseMove(e) ==
    /\ IF isDrawing
       THEN /\ CanAddPoint
            /\ addPointFromEvent(e)
            /\ stroke' = Append(stroke, e)
            /\ counts' = [counts EXCEPT !.moves = @ + 1]
       ELSE UNCHANGED <<pointsQueue, stroke, counts>>
    /\ before' = before
    /\ UNCHANGED <<originalPoints, matrix, matrixQueue, isDrawing, canvas, fault, args, result>>

handleMouseUp ==
    /\ isDrawing' = FALSE
    /\ stroke' = <<>>
    /\ before' = <<>>
    /\ counts' = counts
    /\ UNCHANGED <<originalPoints, matrix, pointsQueue, matrixQueue, canvas, fault, args, result>>

handleSliderChange(i, j, value) ==
    LET r == SliderMatrix(matrix, i, j, value)
    IN  /\ IF r.thrown = "none"
           THEN matrixQueue' = QueueValue(matrixQueue, r.value)
           ELSE UNCHANGED matrixQueue
        /\ fault' = r.thrown
        /\ UNCHANGED <<originalPoints, matrix, pointsQueue, isDrawing, canvas, stroke, before, counts, args, result>>

\* mutant: the array emptied in place (originalPoints.length = 0), no update queued
clearCanvasInPlace ==
    /\ originalPoints' = <<>>
    /\ stroke' = <<>>
    /\ before' = <<>>
    /\ counts' = [presses |-> 0, moves |-> 0]
    /\ UNCHANGED <<pointsQueue, matrix, matrixQueue, isDrawing, canvas, fault, args, result>>

clearCanvas ==
    /\ pointsQueue' = QueueValue(pointsQueue, ClearUpdate)
    /\ stroke' = <<>>
    /\ before' = <<>>
    /\ counts' = [presses |-> 0, moves |-> 0]
    /\ UNCHANGED <<originalPoints, matrix, matrixQueue, isDrawing, canvas, fault, args, result>>

\* mutant: the reset clearing the points as well
resetMatrixAndPoints ==
    /\ matrixQueue' = QueueValue(matrixQueue, ResetValue)
    /\ pointsQueue' = QueueValue(pointsQueue, ClearUpdate)
    /\ stroke' = <<>>
    /\ before' = <<>>
    /\ counts' = [presses |-> 0, moves |-> 0]
    /\ UNCHANGED <<originalPoints, matrix, isDrawing, canvas, fault, args, result>>

resetMatrix ==
    /\ matrixQueue' = QueueValue(matrixQueue, ResetValue)
    /\ UNCHANGED <<originalPoints, matrix, pointsQueue, isDrawing, canvas, stroke, before, counts, fault, args, result>>

-----------------------------------------------------------------------------
(* The wiring of the handlers, lines 101-104, 124, 140-141 *)

MouseDown == \E e \in MouseEvents : handleMouseDown(e)

MouseMove == \E e \in MouseEvents : handleMouseMove(e)

MouseUp == handleMouseUp

\* mutant: the leave wired to the move handler
MouseLeaveAsMove == \E e \in MouseEvents : handleMouseMove(e)

MouseLeave == handleMouseUp

SliderChange ==
    \E i \in GridIndices, j \in GridIndices, t \in SliderTexts :
        handleSliderChange(i, j, parseFloat(t))

ClearClick == clearCanvas

ResetClick == resetMatrix

\* handleSliderChange called with any arguments of its type
SliderCall == \E c \in SampleCalls : handleSliderChange(c.i, c.j, parseFloat(c.text))

-----------------------------------------------------------------------------
(* React *)

\* mutant: matrix left out of the dependencies of the effect
RenderEffectOnPointsOnly ==
    /\ Pending > 0
    /\ originalPoints' = NextPoints
    /\ matrix' = NextMatrix
    /\ pointsQueue' = <<>>
    /\ matrixQueue' = <<>>
    /\ canvas' = IF pointsQueue # <<>> THEN EffectBody(canvas, NextPoints, NextMatrix) ELSE canvas
    /\ UNCHANGED <<isDrawing, fault, stroke, before, counts, args, result>>

\* mutant: the images kept from the render before and redrawn when only the
\* matrix changed
RenderStaleTransform ==
    /\ Pending > 0
    /\ originalPoints' = NextPoints
    /\ matrix' = NextMatrix
    /\ pointsQueue' = <<>>
    /\ matrixQueue' = <<>>
    /\ canvas' = clearRect(canvas) \o drawAxes \o DrawOriginals(NextPoints)
                    \o DrawTransformed(NextPoints, IF pointsQueue = <<>> THEN matrix ELSE NextMatrix)
    /\ UNCHANGED <<isDrawing, fault, stroke, before, counts, args, result>>

\* A render, when an update is queued: the queues are folded into the state.
\* Every queued value and every result of an updater is a new array, so a
\* dependency of the effect has changed and the effect, lines 22-40, runs.
Render ==
    /\ Pending > 0
    /\ originalPoints' = NextPoints
    /\ matrix' = NextMatrix
    /\ pointsQueue' = <<>>
    /\ matrixQueue' = <<>>
    /\ canvas' = EffectBody(canvas, NextPoints, NextMatrix)
    /\ UNCHANGED <<isDrawing, fault, stroke, before, counts, args, result>>

Next ==
    \/ MouseDown
    \/ MouseMove
    \/ MouseUp
    \/ MouseLeave
    \/ SliderChange
    \/ ClearClick
    \/ ResetClick
    \/ Render

Spec == Init /\ [][Next]_vars

\* the same component with handleSliderChange called directly
NextCall ==
    \/ MouseDown
    \/ MouseMove
    \/ MouseUp
    \/ MouseLeave
    \/ SliderCall
    \/ ClearClick
    \/ ResetClick
    \/ Render

SpecCall == Init /\ [][NextCall]_vars

-----------------------------------------------------------------------------
(* What the claims are stated with *)

\* the plane point of a mouse event, written out: canvas-relative position
\* minus half the canvas, the y axis flipped
PlaneOf(e) ==
    [x |-> Fin((e.clientX * Scale - BoundingClientRect.left.v) - (CANVAS_WIDTH \div 2) * Scale),
     y |-> Fin((CANVAS_HEIGHT \div 2) * Scale - (e.clientY * Scale - BoundingClientRect.top.v))]

PlaneOfAll(es) == [k \in 1..Len(es) |-> PlaneOf(es[k])]

\* the 2x2 matrix with the given cells
Matrix2x2(m00, m01, m10, m11) ==
    [a \in {0, 1} |-> [b \in {0, 1} |->
        IF a = 0 THEN (IF b = 0 THEN m00 ELSE m01) ELSE (IF b = 0 THEN m10 ELSE m11)]]

Identity2x2 == Matrix2x2(Fin(Scale), Fin(0), Fin(0), Fin(Scale))

Cells == {0, 1} \X {0, 1}

Is2x2(m) == DOMAIN m = {0, 1} /\ \A a \in {0, 1} : DOMAIN m[a] = {0, 1}

\* the cells in which two 2x2 matrices differ
Differing(m, n) == {c \in Cells : m[c[1]][c[2]] # n[c[1]][c[2]]}

-----------------------------------------------------------------------------
(* The pure functions called on their own: the arguments are drawn from    *)
(* bounded sets when the run begins and one call is made with them.        *)

\* a point of the plane with whole coordinates
Point(x, y) == [x |-> Num(x), y |-> Num(y)]

\* a 2x2 array of whole numbers, written as in lines 16-19 and 75-78
WholeMatrix(a, b, c, d) == Row(Row(Num(a), Num(b)), Row(Num(c), Num(d)))

\* points and matrices worked by hand
ScenarioPoints == {Point(10, 20), Point(-5, 0), Point(1, 0)}

ScenarioMatrices == {WholeMatrix(2, 0, 0, 2), WholeMatrix(0, -1, 1, 0)}

PureCoords == (0 - MaxCoord)..MaxCoord

PureCells == (0 - MaxCell)..MaxCell

PurePoints == {Point(x, y) : x \in PureCoords, y \in PureCoords} \cup ScenarioPoints

PureMatrices ==
    {WholeMatrix(a, b, c, d) : a \in PureCells, b \in PureCells, c \in PureCells, d \in PureCells}
        \cup ScenarioMatrices

\* the extremes and a middle value of each range, for the calls with two points
EdgeCoords == {0 - MaxCoord, 1, MaxCoord}

EdgeCells == {0 - MaxCell, 0, MaxCell}

EdgePoints == {Point(x, y) : x \in EdgeCoords, y \in EdgeCoords}

EdgeMatrices ==
    {WholeMatrix(a, b, c, d) : a \in EdgeCells, b \in EdgeCells, c \in EdgeCells, d \in EdgeCells}

\* positions on the canvas, from its left or top edge: the corners, the
\* centre and their neighbours
CanvasOffsets == {0, 1, (CANVAS_WIDTH \div 2) - 1, CANVAS_WIDTH \div 2, CANVAS_WIDTH - 1, CANVAS_WIDTH}

\* the mouse event at an offset from the corner of the canvas
EventAt(dx, dy) ==
    [clientX |-> dx + BoundingClientRect.left.v \div Scale,
     clientY |-> dy + BoundingClientRect.top.v \div Scale]

ApplyArgs ==
    {[NoArgs EXCEPT !.op = "applyMatrix", !.p1 = p, !.m = m] : p \in PurePoints, m \in PureMatrices}

LinearArgs ==
    {[NoArgs EXCEPT !.op = "linear", !.p1 = p, !.p2 = q, !.k = k, !.m = m] :
        p \in EdgePoints, q \in EdgePoints, k \in EdgeCoords, m \in EdgeMatrices}

EffectArgs ==
    {[NoArgs EXCEPT !.op = "effect", !.p1 = p, !.m = m] : p \in PurePoints, m \in PureMatrices}

RoundTripArgs ==
    {[NoArgs EXCEPT !.op = "roundtrip", !.e = EventAt(dx, dy)] :
        dx \in CanvasOffsets, dy \in CanvasOffsets}

InitPure ==
    /\ originalPoints = <<>>
    /\ matrix = IdentityMatrix
    /\ pointsQueue = <<>>
    /\ matrixQueue = <<>>
    /\ isDrawing = FALSE
    /\ canvas = EffectBody(<<>>, <<>>, IdentityMatrix)
    /\ fault = "none"
    /\ stroke = <<>>
    /\ before = <<>>
    /\ counts = [presses |-> 0, moves |-> 0]
    /\ args \in ApplyArgs \cup LinearArgs \cup EffectArgs \cup RoundTripArgs
    /\ result = NoResult

Returned(value) ==
    /\ result = NoResult
    /\ result' = value
    /\ UNCHANGED <<originalPoints, matrix, pointsQueue, matrixQueue, isDrawing,
                   canvas, fault, stroke, before, counts, args>>

\* applyMatrix(p1, m)
CallApplyMatrix ==
    /\ args.op = "applyMatrix"
    /\ Returned([op |-> "applyMatrix", points |-> <<applyMatrix(args.p1, args.m)>>, drawn |-> <<>>])

\* applyMatrix of a sum, of its two terms and of a multiple
CallLinear ==
    /\ args.op = "linear"
    /\ Returned([op |-> "linear",
                 points |-> <<applyMatrix([x |-> Add(args.p1.x, args.p2.x),
                                           y |-> Add(args.p1.y, args.p2.y)], args.m),
                              applyMatrix(args.p1, args.m),
                              applyMatrix(args.p2, args.m),
                              applyMatrix([x |-> Mul(Num(args.k), args.p1.x),
                                           y |-> Mul(Num(args.k), args.p1.y)], args.m)>>,
                 drawn |-> <<>>])

\* the body of the effect on a cleared canvas, with the one point p1 stored
CallEffect ==
    /\ args.op = "effect"
    /\ Returned([op |-> "effect", points |-> <<applyMatrix(args.p1, args.m)>>,
                 drawn |-> EffectBody(<<>>, <<args.p1>>, args.m)])

\* the point addPointFromEvent stores for an event, and drawPoint on it as
\* lines 33 and 38 call it
CallRoundTrip ==
    /\ args.op = "roundtrip"
    /\ Returned([op |-> "roundtrip", points |-> <<PointFromEvent(args.e)>>,
                 drawn |-> drawPoint(PointFromEvent(args.e), "blue", TRUE)
                              \o drawPoint(PointFromEvent(args.e), "red", FALSE)])

NextPure ==
    \/ CallApplyMatrix
    \/ CallLinear
    \/ CallEffect
    \/ CallRoundTrip

SpecPure == InitPure /\ [][NextPure]_vars

-----------------------------------------------------------------------------
(* Claims *)

\* C1: a press followed by n moves with no release, leave or clear between
\* them appends exactly n+1 points, one per event and in the order of the
\* events, to the points there were when the press came.
C1_DragAppendsOnePerEvent ==
    stroke # <<>> =>
        /\ NextPoints = before \o PlaneOfAll(stroke)
        /\ Len(NextPoints) = Len(before) + Len(stroke)
        /\ (pointsQueue = <<>> => originalPoints = before \o PlaneOfAll(stroke))

\* C1 witness: a press and a move elsewhere, both rendered
C1_Witness ==
    /\ isDrawing
    /\ Len(stroke) = 2
    /\ stroke[1] # stroke[2]
    /\ pointsQueue = <<>>
    /\ originalPoints = PlaneOfAll(stroke)

\* C2: a press while Idle makes the controller Drawing and appends exactly
\* one point, the plane point of the event, at the end of the collection.
C2_PressAppendsOne ==
    [][\A e \in MouseEvents :
          (~isDrawing /\ handleMouseDown(e)) =>
              /\ isDrawing' = TRUE
              /\ NextPoints' = Append(NextPoints, PlaneOf(e))
              /\ originalPoints' = originalPoints]_vars

\* C2 witness: Drawing, right after a press that found a point stored
C2_Witness ==
    /\ isDrawing
    /\ Len(stroke) = 1
    /\ Len(before) = 1
    /\ NextPoints = Append(before, PlaneOf(stroke[1]))
    /\ before[1] # PlaneOf(stroke[1])

\* C3: a release and the pointer leaving the surface each make the
\* controller Idle and add no point; the two have the same effect.
C3_ReleaseAndLeave ==
    [][/\ (MouseUp \/ MouseLeave) =>
              /\ isDrawing' = FALSE
              /\ UNCHANGED <<originalPoints, pointsQueue, matrix, matrixQueue, canvas>>
       /\ MouseUp <=> MouseLeave]_vars

\* C3 witness: Idle again with the point of the drag kept
C3_Witness ==
    /\ ~isDrawing
    /\ stroke = <<>>
    /\ Len(NextPoints) = 2
    /\ pointsQueue # <<>>

\* C4: a slider change of cell (i, j) leaves the matrix equal to the stored
\* matrix with that cell replaced by the value; the other three are as they were.
C4_SliderReplacesOneCell ==
    [][\A i \in GridIndices, j \in GridIndices, t \in SliderTexts :
          handleSliderChange(i, j, parseFloat(t)) =>
              /\ Is2x2(NextMatrix')
              /\ \A c \in Cells :
                    NextMatrix'[c[1]][c[2]] =
                        IF c = <<i, j>> THEN parseFloat(t) ELSE matrix[c[1]][c[2]]
              /\ matrix' = matrix]_vars

\* C4 witness: a change of one off-diagonal cell of a matrix that is not the
\* identity, queued
C4_Witness ==
    /\ matrix # Identity2x2
    /\ matrixQueue # <<>>
    /\ Differing(NextMatrix, matrix) = {<<0, 1>>}

\* C5: a reset leaves the identity matrix whatever the matrix was, in one
\* transition: the stored matrix only ever changes to a value queued whole.
C5_ResetIsAtomic ==
    [][/\ resetMatrix => NextMatrix' = Identity2x2
       /\ (matrix' # matrix) => (matrixQueue # <<>> /\ matrix' = matrixQueue[Len(matrixQueue)])
       /\ (matrix' # matrix /\ matrixQueue[Len(matrixQueue)] = ResetValue) => matrix' = Identity2x2]_vars

\* C5 witness: a reset queued on a matrix all four of whose cells had been
\* changed
C5_Witness ==
    /\ Differing(matrix, Identity2x2) = Cells
    /\ NextMatrix = Identity2x2

\* C6: a slider value that does not parse to a number is ignored: the cell
\* keeps its value and nothing is thrown.
C6_MalformedInputIgnored ==
    [][\A c \in SampleCalls :
          (handleSliderChange(c.i, c.j, parseFloat(c.text)) /\ ~IsFinite(parseFloat(c.text))) =>
              /\ NextMatrix' = NextMatrix
              /\ fault' = "none"]_vars

InRange(a) == IsFinite(a) /\ SLIDER_MIN * Scale <= a.v /\ a.v <= SLIDER_MAX * Scale

AllInRange(m) == Is2x2(m) /\ \A c \in Cells : InRange(m[c[1]][c[2]])

\* C7: the matrix starts as the identity, is always a 2x2 grid of cells in
\* [-5, 5], and changes only by one cell (a control) or to the identity (reset).
C7_MatrixInRange ==
    /\ matrix = Identity2x2
    /\ [](AllInRange(matrix) /\ AllInRange(NextMatrix))
    /\ [][matrix' # matrix =>
             (matrix' = Identity2x2 \/ Cardinality(Differing(matrix', matrix)) = 1)]_vars

\* C7 witness: all four cells at the minimum of the range, rendered
C7_Witness ==
    /\ matrixQueue = <<>>
    /\ \A c \in Cells : matrix[c[1]][c[2]] = Fin(SLIDER_MIN * Scale)

\* C8: handleSliderChange with a row or a column outside {0, 1} fails with an
\* error and changes nothing.
C8_IndexOutOfRangeFails ==
    [][\A c \in SampleCalls :
          (handleSliderChange(c.i, c.j, parseFloat(c.text)) /\ (c.i \notin {0, 1} \/ c.j \notin {0, 1})) =>
              /\ fault' # "none"
              /\ matrixQueue' = matrixQueue]_vars

\* C9 as claimed: every change is followed at once by its render, which draws
\* the state that change left; no other event comes between the two.
C9_RenderFollowsEveryChange ==
    [][Pending > 0 =>
          /\ Pending' = 0
          /\ originalPoints' = NextPoints
          /\ matrix' = NextMatrix
          /\ canvas' = EffectBody(<<>>, NextPoints, NextMatrix)]_vars

\* C9 amended: the surface always shows the stored points and matrix, drawn
\* once at startup and once by every render; a render follows one or more
\* queued changes and stores the state with all of them applied; events may
\* be handled between a change and its render.
C9_RenderDrawsStoredState ==
    /\ [](canvas = EffectBody(<<>>, originalPoints, matrix))
    /\ [][(originalPoints' # originalPoints \/ matrix' # matrix \/ canvas' # canvas) =>
             /\ Pending > 0
             /\ Pending' = 0
             /\ originalPoints' = NextPoints
             /\ matrix' = NextMatrix]_vars

\* C9 witness: a press, a move and a slider change handled and not yet rendered
C9_Witness ==
    /\ Len(pointsQueue) = 2
    /\ matrixQueue # <<>>
    /\ NextMatrix # matrix
    /\ canvas = EffectBody(<<>>, originalPoints, matrix)

\* device position of a plane point, written out
DeviceX(pt) == Fin(pt.x.v + (CANVAS_WIDTH \div 2) * Scale)

DeviceY(pt) == Fin((CANVAS_HEIGHT \div 2) * Scale - pt.y.v)

\* C10: after a render the surface holds, in this order and nothing else: the
\* two axes, a filled marker per stored point in insertion order, an outlined
\* marker per image of a stored point in insertion order.
C10_RenderOrder ==
    LET n == Len(originalPoints)
    IN  /\ Len(canvas) = 2 + 2 * n
        /\ canvas[1] = [op |-> "line", color |-> "black",
                        x1 |-> Fin(0), y1 |-> Fin((CANVAS_HEIGHT \div 2) * Scale),
                        x2 |-> Fin(CANVAS_WIDTH * Scale), y2 |-> Fin((CANVAS_HEIGHT \div 2) * Scale)]
        /\ canvas[2] = [op |-> "line", color |-> "black",
                        x1 |-> Fin((CANVAS_WIDTH \div 2) * Scale), y1 |-> Fin(0),
                        x2 |-> Fin((CANVAS_WIDTH \div 2) * Scale), y2 |-> Fin(CANVAS_HEIGHT * Scale)]
        /\ \A k \in 1..n :
              /\ canvas[2 + k] =
                    [op |-> "fill", color |-> "blue",
                     x |-> DeviceX(originalPoints[k]), y |-> DeviceY(originalPoints[k])]
              /\ canvas[2 + n + k] =
                    [op |-> "stroke", color |-> "red",
                     x |-> DeviceX(applyMatrix(originalPoints[k], matrix)),
                     y |-> DeviceY(applyMatrix(originalPoints[k], matrix))]

\* C10 witness: two different points drawn with images that are elsewhere
C10_Witness ==
    /\ Len(originalPoints) = 2
    /\ originalPoints[1] # originalPoints[2]
    /\ Len(canvas) = 6
    /\ canvas[4].x # canvas[6].x
    /\ canvas[4].y # canvas[6].y

\* the two axes and nothing else
AxesOnly ==
    <<[op |-> "line", color |-> "black",
       x1 |-> Fin(0), y1 |-> Fin((CANVAS_HEIGHT \div 2) * Scale),
       x2 |-> Fin(CANVAS_WIDTH * Scale), y2 |-> Fin((CANVAS_HEIGHT \div 2) * Scale)],
      [op |-> "line", color |-> "black",
       x1 |-> Fin((CANVAS_WIDTH \div 2) * Scale), y1 |-> Fin(0),
       x2 |-> Fin((CANVAS_WIDTH \div 2) * Scale), y2 |-> Fin(CANVAS_HEIGHT * Scale)]>>

\* C11: a clear leaves the collection empty in one transition, and a render
\* that follows it with no point added in between leaves only the two axes on
\* the surface, no marker of either kind, whatever the matrix is.
C11_ClearLeavesOnlyAxes ==
    /\ [](originalPoints = <<>> => canvas = AxesOnly)
    /\ [][/\ clearCanvas => NextPoints' = <<>>
          /\ (NextPoints = <<>> /\ Pending > 0 /\ Pending' = 0) =>
                /\ originalPoints' = <<>>
                /\ matrix' = NextMatrix
                /\ canvas' = AxesOnly]_vars

\* C11 witness: a press, then a clear before any release, then the render,
\* with a matrix that is not the identity
C11_Witness ==
    /\ isDrawing
    /\ stroke = <<>>
    /\ originalPoints = <<>>
    /\ pointsQueue = <<>>
    /\ matrixQueue = <<>>
    /\ matrix # Identity2x2
    /\ canvas = AxesOnly

\* the whole number a number of the fixed point stands for
Whole(a) == a.v \div Scale

\* C12: applyMatrix(p, M) is (m00*x + m01*y, m10*x + m11*y); (10, 20) and
\* (-5, 0) under [[2,0],[0,2]] give (20, 40) and (-10, 0), and (1, 0) under
\* [[0,-1],[1,0]] gives (0, 1).
C12_ApplyMatrixFormula ==
    result.op = "applyMatrix" =>
        LET x == Whole(args.p1.x)
            y == Whole(args.p1.y)
            m00 == Whole(args.m[0][0])
            m01 == Whole(args.m[0][1])
            m10 == Whole(args.m[1][0])
            m11 == Whole(args.m[1][1])
            image == result.points[1]
        IN  /\ image = [x |-> Fin((m00 * x + m01 * y) * Scale),
                        y |-> Fin((m10 * x + m11 * y) * Scale)]
            /\ (<<x, y, m00, m01, m10, m11>> = <<10, 20, 2, 0, 0, 2>>) =>
                    image = [x |-> Fin(20 * Scale), y |-> Fin(40 * Scale)]
            /\ (<<x, y, m00, m01, m10, m11>> = <<-5, 0, 2, 0, 0, 2>>) =>
                    image = [x |-> Fin(-10 * Scale), y |-> Fin(0)]
            /\ (<<x, y, m00, m01, m10, m11>> = <<1, 0, 0, -1, 1, 0>>) =>
                    image = [x |-> Fin(0), y |-> Fin(Scale)]

\* C12 witness: (1, 0) turned a quarter to (0, 1)
C12_Witness ==
    /\ result.op = "applyMatrix"
    /\ <<Whole(args.p1.x), Whole(args.p1.y)>> = <<1, 0>>
    /\ <<Whole(args.m[0][0]), Whole(args.m[0][1]), Whole(args.m[1][0]), Whole(args.m[1][1])>>
          = <<0, -1, 1, 0>>
    /\ result.points = <<[x |-> Fin(0), y |-> Fin(Scale)]>>

\* the image of a point, by the arithmetic of the fixed point written out
ImageOf(pt, m) ==
    [x |-> Fin((pt.x.v * m[0][0].v + pt.y.v * m[0][1].v) \div Scale),
     y |-> Fin((pt.x.v * m[1][0].v + pt.y.v * m[1][1].v) \div Scale)]

\* what is on the surface, as a function of the points and the matrix alone
SurfaceOf(pts, m) ==
    AxesOnly
        \o [k \in 1..Len(pts) |->
                [op |-> "fill", color |-> "blue", x |-> DeviceX(pts[k]), y |-> DeviceY(pts[k])]]
        \o [k \in 1..Len(pts) |->
                [op |-> "stroke", color |-> "red",
                 x |-> DeviceX(ImageOf(pts[k], m)), y |-> DeviceY(ImageOf(pts[k], m))]]

\* C13: the images are never stored and never stale: the surface is a
\* function of the stored points and the stored matrix alone, its outlined
\* markers the images of the stored points under the stored matrix; neither
\* the controller state nor the events that led there have a part in it.
C13_SurfaceIsFunctionOfState ==
    /\ [](canvas = SurfaceOf(originalPoints, matrix))
    /\ [][UNCHANGED <<originalPoints, matrix>> => UNCHANGED canvas]_vars

\* C13 witness: Drawing, with two points rendered under a matrix that is not
\* the identity and moves one of them
C13_Witness ==
    /\ isDrawing
    /\ Len(originalPoints) = 2
    /\ pointsQueue = <<>>
    /\ matrix # Identity2x2
    /\ Len(canvas) = 6
    /\ canvas[6].x # canvas[4].x

\* C14: the point stored for an event at (dx, dy) from the corner of the
\* canvas is (dx - 250, -(dy - 250)), and its marker, filled or outlined, is
\* drawn back at (dx, dy), for positions over the whole surface.
C14_DeviceRoundTrip ==
    result.op = "roundtrip" =>
        LET dx == args.e.clientX - Whole(BoundingClientRect.left)
            dy == args.e.clientY - Whole(BoundingClientRect.top)
        IN  /\ dx \in 0..CANVAS_WIDTH
            /\ dy \in 0..CANVAS_HEIGHT
            /\ result.points = <<[x |-> Fin((dx - 250) * Scale), y |-> Fin((0 - (dy - 250)) * Scale)]>>
            /\ result.drawn = <<[op |-> "fill", color |-> "blue",
                                 x |-> Fin(dx * Scale), y |-> Fin(dy * Scale)],
                                [op |-> "stroke", color |-> "red",
                                 x |-> Fin(dx * Scale), y |-> Fin(dy * Scale)]>>

\* C14 witness: the event at the bottom left corner, stored below and left of
\* the origin and drawn back at the corner
C14_Witness ==
    /\ result.op = "roundtrip"
    /\ args.e = EventAt(0, CANVAS_HEIGHT)
    /\ result.points = <<[x |-> Fin(-250 * Scale), y |-> Fin(-250 * Scale)]>>
    /\ Len(result.drawn) = 2
    /\ result.drawn[1].y = Fin(CANVAS_HEIGHT * Scale)

IsPrefix(s, t) == Len(s) <= Len(t) /\ SubSeq(t, 1, Len(s)) = s

\* the points of the queued updaters, oldest first
QueuedPoints == [k \in 1..Len(pointsQueue) |-> pointsQueue[k].pt]

NoClearQueued == \A k \in 1..Len(pointsQueue) : pointsQueue[k].kind = "updater"

\* C15: until a clear the collection only grows at its end: a handler other
\* than the clear that queues an update adds its one point after all others,
\* and a render with no clear queued leaves the stored sequence a prefix of
\* the new one, followed by the queued points in order, equal points included.
C15_AppendOnly ==
    [][/\ (pointsQueue' # pointsQueue /\ pointsQueue' # <<>> /\ ~clearCanvas) =>
              /\ \E e \in MouseEvents : pointsQueue'[Len(pointsQueue')].pt = PlaneOf(e)
              /\ NextPoints' = Append(NextPoints, pointsQueue'[Len(pointsQueue')].pt)
       /\ (originalPoints' # originalPoints /\ NoClearQueued) =>
              /\ IsPrefix(originalPoints, originalPoints')
              /\ originalPoints' = originalPoints \o QueuedPoints]_vars

\* C15 witness: the same point stored twice
C15_Witness ==
    /\ Len(originalPoints) = 2
    /\ originalPoints[1] = originalPoints[2]
    /\ pointsQueue = <<>>

\* C16: the mouse handlers and the clear leave the matrix alone; a slider
\* change and the reset leave the points and isDrawing alone; the clear
\* leaves isDrawing alone.
C16_Frames ==
    [][/\ (MouseDown \/ MouseMove \/ MouseUp \/ MouseLeave \/ ClearClick) =>
              UNCHANGED <<matrix, matrixQueue>>
       /\ (SliderChange \/ ResetClick) =>
              UNCHANGED <<originalPoints, pointsQueue, isDrawing>>
       /\ ClearClick => UNCHANGED isDrawing]_vars

\* C16 witness: Drawing, with a point stored, a clear queued and a matrix
\* change queued
C16_Witness ==
    /\ isDrawing
    /\ originalPoints # <<>>
    /\ pointsQueue = <<ClearUpdate>>
    /\ matrixQueue # <<>>
    /\ NextMatrix # matrix

\* C17: under the identity matrix, the one the component starts with and the
\* one a reset stores, every point is its own image and its outlined marker
\* is drawn where its filled marker is.
C17_IdentityFixesPoints ==
    /\ IdentityMatrix = Identity2x2
    /\ ResetValue = Identity2x2
    /\ (result.op = "effect" /\ args.m = Identity2x2) =>
          /\ result.points = <<args.p1>>
          /\ Len(result.drawn) = 4
          /\ result.drawn[3].op = "fill"
          /\ result.drawn[4].op = "stroke"
          /\ result.drawn[3].x = result.drawn[4].x
          /\ result.drawn[3].y = result.drawn[4].y

\* C17 witness: a point off both axes drawn under the identity
C17_Witness ==
    /\ result.op = "effect"
    /\ args.m = Identity2x2
    /\ args.p1 = Point(10, 20)
    /\ Len(result.drawn) = 4

\* C18: applyMatrix is linear over whole coordinates and cells: the image of
\* a sum is the sum of the images and the image of k times a point is k times
\* its image.
C18_ApplyMatrixLinear ==
    result.op = "linear" =>
        LET sum == result.points[1]
            a == result.points[2]
            b == result.points[3]
            scaled == result.points[4]
        IN  /\ sum = [x |-> Fin(a.x.v + b.x.v), y |-> Fin(a.y.v + b.y.v)]
            /\ scaled = [x |-> Fin(args.k * a.x.v), y |-> Fin(args.k * a.y.v)]

\* C18 witness: two different points, neither on an axis, a factor below
\* zero and a matrix with no cell zero
C18_Witness ==
    /\ result.op = "linear"
    /\ args.p1 # args.p2
    /\ args.k < 0
    /\ \A c \in Cells : args.m[c[1]][c[2]] # Fin(0)
    /\ result.points[1] # result.points[2]
    /\ result.points[4] # result.points[2]

\* m with cell (i, j) replaced by value
WithCell(m, i, j, value) ==
    [a \in {0, 1} |-> [b \in {0, 1} |-> IF <<a, b>> = <<i, j>> THEN value ELSE m[a][b]]]

\* C19: no matrix update is lost: a slider change leaves the matrix the
\* events before it left, with its one cell replaced, and a reset leaves the
\* identity, also when no render came between the events.
C19_NoUpdateLost ==
    [][/\ \A i \in GridIndices, j \in GridIndices, t \in SliderTexts :
              handleSliderChange(i, j, parseFloat(t)) =>
                  NextMatrix' = WithCell(NextMatrix, i, j, parseFloat(t))
       /\ resetMatrix => NextMatrix' = Identity2x2]_vars

\* C20: a move while Idle changes neither the collection nor the controller
\* state, and the length of the collection since the last clear is the number
\* of presses plus the number of moves handled while Drawing.
C20_OnlyDrawingMovesAdd ==
    /\ [](Len(NextPoints) = counts.presses + counts.moves)
    /\ [][\A e \in MouseEvents :
             (~isDrawing /\ handleMouseMove(e)) =>
                 UNCHANGED <<originalPoints, pointsQueue, isDrawing>>]_vars

\* C20 witness: Idle after a press, a move and a release
C20_Witness ==
    /\ ~isDrawing
    /\ counts = [presses |-> 1, moves |-> 1]
    /\ Len(NextPoints) = 2

=============================================================================
